---- MODULE Spec2Model ----
(***************************************************************************)
(* A model of the Fibonacci heap of src/fibonacci_heap/fibonacci_heap.py   *)
(* and of its node, src/fibonacci_heap/fibonacci_node.py.                  *)
(*                                                                         *)
(* Nodes live in an arena 1..Capacity; a node reference is an index and    *)
(* None is 0.  The fields of FibonacciNode are the functions key, degree,  *)
(* parent, child, left, right and marked; the fields of FibonacciHeap are  *)
(* min_node, num_nodes, num_trees and num_marked of the heap under study;  *)
(* other_heap holds these fields of a second heap.  Every method is an     *)
(* operator from a program state (a record of these fields plus err, the   *)
(* uncaught exception if any) to the program state it leaves.  Python's    *)
(* node comparison a == b is FibonacciNode.__eq__, which compares keys;    *)
(* a is b is identity.  Both are kept apart here.                          *)
(***************************************************************************)
EXTENDS Integers, Sequences, FiniteSets, TLC

\* Bounds of the specifications.
MaxNodes == 4
MaxKey == 2
DrainNodes == 5
DrainKey == 3
FillNodes == 5
FillDec == 2
MergeNodes == 4
MergeKey == 2
ReadNodes == 3
ReadKey == 2
EqualNodes == 5
EqualKey == 1
EqualFillNodes == 6
CascadeNodes == 17
EqualCascadeNodes == 9
EqualCascadeDrain == 2
WideNodes == 19
NodeCount == 4
NodeKey == 2
WideDel == 4

None == 0
NegInf == -1

MaxOf(S) == CHOOSE x \in S : \A y \in S : y <= x
Capacity ==
  MaxOf({MaxNodes, DrainNodes, FillNodes + 1, MergeNodes, ReadNodes,
         EqualNodes, EqualFillNodes, CascadeNodes,
         EqualCascadeNodes, WideNodes, NodeCount})
Nodes == 1..Capacity

VARIABLES key, degree, parent, child, left, right, marked,
          min_node, num_nodes, num_trees, num_marked,
          other_heap, err, allocated, live, out, last, merges

nodeVars == <<key, degree, parent, child, left, right, marked>>
heapVars == <<min_node, num_nodes, num_trees, num_marked>>
vars == <<key, degree, parent, child, left, right, marked,
          min_node, num_nodes, num_trees, num_marked,
          other_heap, err, allocated, live, out, last, merges>>

\* The program state as one value.
St ==
  [key |-> key, degree |-> degree, parent |-> parent, child |-> child,
   left |-> left, right |-> right, marked |-> marked,
   min_node |-> min_node, num_nodes |-> num_nodes, num_trees |-> num_trees,
   num_marked |-> num_marked, err |-> err]

Raise(s, e) == [s EXCEPT !.err = e]

(***************************************************************************)
(* FibonacciNode                                                           *)
(***************************************************************************)

\* FibonacciNode.__init__
NewNode(s, n, k) ==
  [s EXCEPT !.key[n] = k, !.degree[n] = 0, !.parent[n] = None,
            !.child[n] = None, !.left[n] = n, !.right[n] = n,
            !.marked[n] = FALSE]

\* FibonacciNode.__eq__: a == b on nodes compares keys; None equals no node.
NodeEq(s, a, b) == a # None /\ b # None /\ s.key[a] = s.key[b]

\* The loop shared by get_children, _consolidate and get_roots:
\*   current = start; while True: append current; current = current.right;
\*   if current == start: break
\* The result is the list built; <<>> stands for a loop that never breaks
\* (the walk is deterministic, so returning to a visited node without
\* breaking repeats forever).
RECURSIVE WalkRight(_, _, _, _)
WalkRight(s, start, current, acc) ==
  LET acc1 == Append(acc, current)
      nxt == s.right[current]
  IN IF NodeEq(s, nxt, start) THEN acc1
     ELSE IF \E i \in 1..Len(acc1) : acc1[i] = nxt THEN <<>>
     ELSE WalkRight(s, start, nxt, acc1)

\* FibonacciNode.get_children (for a node whose child is not None)
get_children(s, n) == WalkRight(s, s.child[n], s.child[n], <<>>)

\* FibonacciNode.subtree_size: 1 plus the sizes of the nodes its loop over
\* the child cycle visits (the loop of get_children); 0 stands for a loop
\* that never breaks.
RECURSIVE subtree_size(_, _)
RECURSIVE SumSizes(_, _, _)
SumSizes(s, nodes, i) ==
  IF i > Len(nodes) THEN 0
  ELSE LET a == subtree_size(s, nodes[i])
           b == SumSizes(s, nodes, i + 1)
       IN IF a = 0 \/ b < 0 THEN -1 ELSE a + b

subtree_size(s, n) ==
  IF s.child[n] = None THEN 1
  ELSE LET children == get_children(s, n)
           sum == SumSizes(s, children, 1)
       IN IF children = <<>> \/ sum < 0 THEN 0 ELSE 1 + sum

UnmarkChild_keep(s, c) == s

\* add_child's last statement: the node is unmarked when it becomes a child.
UnmarkChild(s, c) == [s EXCEPT !.marked[c] = FALSE]

\* FibonacciNode.add_child
add_child(s, p, c) ==
  LET ch == s.child[p]
      linked ==
        IF ch = None
        THEN [s EXCEPT !.child[p] = c, !.left[c] = c, !.right[c] = c]
        ELSE LET a == [s EXCEPT !.left[c] = ch]
                 b == [a EXCEPT !.right[c] = a.right[ch]]
                 d == [b EXCEPT !.left[b.right[ch]] = c]
             IN [d EXCEPT !.right[ch] = c]
      e == [linked EXCEPT !.parent[c] = p]
      f == [e EXCEPT !.degree[p] = @ + 1]
  IN UnmarkChild(f, c)

MoveChildPointer_stay(s, p, c) == s

\* remove_child's `self.child = child.right`.
MoveChildPointer(s, p, c) == [s EXCEPT !.child[p] = s.right[c]]

\* FibonacciNode.remove_child
remove_child(s, p, c) ==
  LET unlinked ==
        IF s.degree[p] = 1
        THEN [s EXCEPT !.child[p] = None]
        ELSE LET a == IF NodeEq(s, s.child[p], c)
                      THEN MoveChildPointer(s, p, c)
                      ELSE s
                 b == [a EXCEPT !.right[a.left[c]] = a.right[c]]
             IN [b EXCEPT !.left[b.right[c]] = b.left[c]]
      e == [unlinked EXCEPT !.parent[c] = None]
      f == [e EXCEPT !.left[c] = c, !.right[c] = c]
  IN [f EXCEPT !.degree[p] = @ - 1]

(***************************************************************************)
(* FibonacciHeap: the private helpers                                      *)
(***************************************************************************)

\* FibonacciHeap._add_to_root_list
AddToRootList(s, node) ==
  IF s.min_node = None
  THEN [s EXCEPT !.min_node = node, !.left[node] = node, !.right[node] = node]
  ELSE LET m == s.min_node
           a == [s EXCEPT !.left[node] = s.left[m]]
           b == [a EXCEPT !.right[node] = m]
           c == [b EXCEPT !.right[b.left[m]] = node]
       IN [c EXCEPT !.left[m] = node]

\* FibonacciHeap._remove_from_root_list: `node.right == node` is __eq__.
RemoveFromRootList(s, node) ==
  IF NodeEq(s, s.right[node], node)
  THEN [s EXCEPT !.min_node = None]
  ELSE LET a == [s EXCEPT !.right[s.left[node]] = s.right[node]]
           b == [a EXCEPT !.left[a.right[node]] = a.left[node]]
       IN IF b.min_node = node THEN [b EXCEPT !.min_node = b.right[node]]
          ELSE b

\* UpdateMin with the comparison reversed.
UpdateMin_gt(s, node) ==
  IF s.key[node] > s.key[s.min_node] THEN [s EXCEPT !.min_node = node] ELSE s

\* `if node.key < self.min_node.key: self.min_node = node`
\* (insert, _consolidate and decrease_key)
UpdateMin(s, node) ==
  IF s.key[node] < s.key[s.min_node] THEN [s EXCEPT !.min_node = node] ELSE s

\* int(math.log(n) * 2) + 1 for n >= 1: floor(2 ln n) is the number of
\* d >= 1 with e^d <= n^2, and ceil(e^d) for d = 1..8 is listed below
\* (exact for n <= 54).
ExpCeil == <<3, 8, 21, 55, 149, 404, 1097, 2981>>
TableSize(n) == Cardinality({d \in 1..Len(ExpCeil) : ExpCeil[d] <= n * n}) + 1

\* Python list indexing degree_table[d]: valid for -len <= d < len.
ValidIndex(table, d) == -Len(table) <= d /\ d < Len(table)
Pos(table, d) == IF d >= 0 THEN d + 1 ELSE Len(table) + d + 1

\* LinkSwap with the comparison reversed: the larger key becomes the parent.
LinkSwap_lt(s, root, other) == s.key[root] < s.key[other]

\* `if root.key > other.key: root, other = other, root`
LinkSwap(s, root, other) == s.key[root] > s.key[other]

\* NextDegree without the increment: the linked tree is filed under the
\* degree it had before the link.
NextDegree_same(d) == d

\* `degree += 1` after a link
NextDegree(d) == d + 1

\* The body of `for root in roots` in _consolidate: the while loop that
\* links equal-degree trees, then degree_table[degree] = root.
RECURSIVE LinkLoop(_, _, _, _)
LinkLoop(s, table, root, d) ==
  IF ~ValidIndex(table, d)
  THEN [s |-> Raise(s, "IndexError"), table |-> table]
  ELSE LET i == Pos(table, d) IN
       IF table[i] = None
       THEN [s |-> s, table |-> [table EXCEPT ![i] = root]]
       ELSE LET swap == LinkSwap(s, root, table[i])
                r == IF swap THEN table[i] ELSE root
                o == IF swap THEN root ELSE table[i]
                a == RemoveFromRootList(s, o)
                b == add_child(a, r, o)
                c == [b EXCEPT !.num_trees = @ - 1]
            IN LinkLoop(c, [table EXCEPT ![i] = None], r, NextDegree(d))

RECURSIVE LinkRoots(_, _, _, _)
LinkRoots(s, table, roots, i) ==
  IF i > Len(roots) THEN [s |-> s, table |-> table]
  ELSE LET r == LinkLoop(s, table, roots[i], s.degree[roots[i]])
       IN IF r.s.err # "none" THEN r
          ELSE LinkRoots(r.s, r.table, roots, i + 1)

\* The last loop of _consolidate: rebuild the root list from the table.
RECURSIVE Rebuild(_, _, _)
Rebuild(s, table, i) ==
  IF i > Len(table) THEN s
  ELSE LET node == table[i] IN
       IF node = None THEN Rebuild(s, table, i + 1)
       ELSE IF s.min_node = None
       THEN Rebuild([s EXCEPT !.min_node = node, !.left[node] = node,
                              !.right[node] = node, !.num_trees = 1],
                    table, i + 1)
       ELSE LET a == UpdateMin(AddToRootList(s, node), node)
            IN Rebuild([a EXCEPT !.num_trees = @ + 1], table, i + 1)

\* FibonacciHeap._consolidate
Consolidate(s) ==
  IF s.num_nodes <= 0 THEN Raise(s, "ValueError: math domain error")
  ELSE LET size == TableSize(s.num_nodes)
           roots == WalkRight(s, s.min_node, s.min_node, <<>>)
       IN IF roots = <<>> THEN Raise(s, "diverges")
          ELSE LET r == LinkRoots(s, [i \in 1..size |-> None], roots, 1)
               IN IF r.s.err # "none" THEN r.s
                  ELSE Rebuild([r.s EXCEPT !.min_node = None, !.num_trees = 0],
                               r.table, 1)

\* `child.marked = False` followed by `if child.marked: self.num_marked -= 1`
UnmarkCut(s, c) ==
  LET a == [s EXCEPT !.marked[c] = FALSE]
      b == [a EXCEPT !.num_trees = @ + 1]
  IN IF b.marked[c] THEN [b EXCEPT !.num_marked = @ - 1] ELSE b

\* FibonacciHeap._cut
Cut(s, c, p) == UnmarkCut(AddToRootList(remove_child(s, p, c), c), c)

\* `node.marked = True; self.num_marked += 1`: the first child lost
MarkLoss(s, node) == [s EXCEPT !.marked[node] = TRUE, !.num_marked = @ + 1]

\* FibonacciHeap._cascading_cut
RECURSIVE CascadingCut(_, _)
CascadingCut(s, node) ==
  LET p == s.parent[node] IN
  IF p = None THEN s
  ELSE IF ~s.marked[node]
  THEN MarkLoss(s, node)
  ELSE CascadingCut(Cut(s, node, p), p)

(***************************************************************************)
(* FibonacciHeap: the public operations                                    *)
(***************************************************************************)

\* FibonacciHeap.insert, n the new node
Insert(s, n, k) ==
  LET a == NewNode(s, n, k)
      b == IF a.min_node = None
           THEN [a EXCEPT !.min_node = n, !.num_trees = 1]
           ELSE LET c == UpdateMin(AddToRootList(a, n), n)
                IN [c EXCEPT !.num_trees = @ + 1]
  IN [b EXCEPT !.num_nodes = @ + 1]

\* The promotion loop of delete_min and its two counter updates.
RECURSIVE PromoteChildren(_, _, _)
PromoteChildren(s, children, i) ==
  IF i > Len(children) THEN s
  ELSE LET c == children[i]
           a == [s EXCEPT !.parent[c] = None]
           b == [a EXCEPT !.marked[c] = FALSE]
       IN PromoteChildren(AddToRootList(b, c), children, i + 1)

MarkedAmong(s, children) ==
  Cardinality({i \in 1..Len(children) : s.marked[children[i]]})

Promote(s, children) ==
  LET a == PromoteChildren(s, children, 1)
      b == [a EXCEPT !.num_trees = @ + Len(children)]
  IN [b EXCEPT !.num_marked = @ - MarkedAmong(b, children)]

\* FibonacciHeap.delete_min after its emptiness check
DeleteMinBody(s) ==
  LET m == s.min_node
      children == IF s.child[m] # None THEN get_children(s, m) ELSE <<>>
  IN IF s.child[m] # None /\ children = <<>> THEN Raise(s, "diverges")
     ELSE LET a == IF s.child[m] # None THEN Promote(s, children) ELSE s
              b == RemoveFromRootList(a, m)
              c == [b EXCEPT !.num_trees = @ - 1]
              d == [c EXCEPT !.num_nodes = @ - 1]
          IN IF d.num_nodes = 0
             THEN [d EXCEPT !.min_node = None, !.num_trees = 0]
             ELSE Consolidate([d EXCEPT !.min_node = d.right[m]])

\* delete_min counting down before it looks at the minimum pointer
DeleteMin_uncounted(s) ==
  IF s.min_node = None THEN [s EXCEPT !.num_nodes = @ - 1]
  ELSE DeleteMinBody(s)

\* FibonacciHeap.delete_min; the node returned is s.min_node
DeleteMin(s) ==
  IF s.min_node = None THEN s ELSE DeleteMinBody(s)

\* `if new_key > node.key: raise ValueError`
KeyTooLarge(s, node, new_key) == new_key > s.key[node]

\* ViolatesOrder with a key equal to the parent's counted as a violation.
ViolatesOrder_le(s, node, p) == s.key[node] <= s.key[p]

\* `node.key < parent.key`
ViolatesOrder(s, node, p) == s.key[node] < s.key[p]

\* FibonacciHeap.decrease_key after its argument check
DecreaseKeyBody(s, node, new_key) ==
  LET a == [s EXCEPT !.key[node] = new_key]
      p == a.parent[node]
      b == IF p # None /\ ViolatesOrder(a, node, p)
           THEN CascadingCut(Cut(a, node, p), p)
           ELSE a
  IN IF b.min_node = None THEN Raise(b, "AttributeError")
     ELSE UpdateMin(b, node)

\* decrease_key with the key assigned before the argument check.
DecreaseKey_late(s, node, new_key) ==
  IF KeyTooLarge(s, node, new_key)
  THEN Raise([s EXCEPT !.key[node] = new_key], "ValueError")
  ELSE DecreaseKeyBody(s, node, new_key)

\* FibonacciHeap.decrease_key
DecreaseKey(s, node, new_key) ==
  IF KeyTooLarge(s, node, new_key) THEN Raise(s, "ValueError")
  ELSE DecreaseKeyBody(s, node, new_key)

\* FibonacciHeap.delete
Delete(s, node) ==
  LET a == DecreaseKey(s, node, NegInf)
  IN IF a.err # "none" THEN a ELSE DeleteMin(a)

\* FibonacciHeap.merge: self is a, other is b (the nodes are shared); the
\* result is the new heap `merged`.
Merge(a, b) ==
  LET sums(m) == [m EXCEPT !.num_nodes = a.num_nodes + b.num_nodes,
                           !.num_trees = a.num_trees + b.num_trees,
                           !.num_marked = a.num_marked + b.num_marked]
  IN IF a.num_nodes = 0 THEN sums([a EXCEPT !.min_node = b.min_node])
     ELSE IF b.num_nodes = 0 THEN sums(a)
     ELSE IF a.min_node = None \/ b.min_node = None
     THEN Raise(a, "AttributeError")
     ELSE LET am == a.min_node
              bm == b.min_node
              self_last == a.left[am]
              other_last == a.left[bm]
              c == [a EXCEPT !.left[am] = other_last]
              d == [c EXCEPT !.right[other_last] = am]
              e == [d EXCEPT !.left[bm] = self_last]
              f == [e EXCEPT !.right[self_last] = bm]
          IN sums([f EXCEPT !.min_node =
                      IF f.key[am] <= f.key[bm] THEN am ELSE bm])

\* The read-only accessors: the state each leaves and what it returns
\* (node for find_min, k for the others; is_empty as 1 or 0, get_roots as
\* the length of the list).
find_min(s) == [s |-> s, node |-> s.min_node, k |-> 0]

len(s) == [s |-> s, node |-> None, k |-> s.num_nodes]

is_empty(s) == [s |-> s, node |-> None, k |-> IF s.num_nodes = 0 THEN 1 ELSE 0]

\* FibonacciHeap.potential
potential(s) == s.num_trees + 2 * s.num_marked

\* get_roots resetting the tree counter it has just recounted.
get_roots_recount(s) ==
  IF s.min_node = None THEN [s |-> s, node |-> None, k |-> 0]
  ELSE LET roots == WalkRight(s, s.min_node, s.min_node, <<>>)
       IN IF roots = <<>>
          THEN [s |-> Raise(s, "diverges"), node |-> None, k |-> 0]
          ELSE [s |-> [s EXCEPT !.num_trees = Len(roots) + 1],
                node |-> None, k |-> Len(roots)]

\* FibonacciHeapAnalyzer.max_degree_bound: int(log(n) / log(phi)) for n >= 1
\* is the number of d >= 1 with phi^d <= n, and ceil(phi^d) for d = 1..8 is
\* listed below (exact for n <= 75).
PhiCeil == <<2, 3, 5, 7, 12, 18, 30, 47>>
max_degree_bound(n) ==
  IF n <= 0 THEN 0
  ELSE Cardinality({d \in 1..Len(PhiCeil) : PhiCeil[d] <= n})

\* FibonacciHeap.get_roots
get_roots(s) ==
  IF s.min_node = None THEN [s |-> s, node |-> None, k |-> 0]
  ELSE LET roots == WalkRight(s, s.min_node, s.min_node, <<>>)
       IN IF roots = <<>>
          THEN [s |-> Raise(s, "diverges"), node |-> None, k |-> 0]
          ELSE [s |-> s, node |-> None, k |-> Len(roots)]

AccessorNames == {"find_min", "len", "is_empty", "potential", "get_roots"}

Access(name, s) ==
  CASE name = "find_min" -> find_min(s)
    [] name = "len" -> len(s)
    [] name = "is_empty" -> is_empty(s)
    [] name = "potential" -> [s |-> s, node |-> None, k |-> potential(s)]
    [] name = "get_roots" -> get_roots(s)

(***************************************************************************)
(* The state machine                                                       *)
(***************************************************************************)

\* The state of heap h ("self" or "other") with the nodes.
HeapSt(h) ==
  IF h = "self" THEN St
  ELSE [St EXCEPT !.min_node = other_heap.min_node, !.num_nodes = other_heap.num_nodes,
                  !.num_trees = other_heap.num_trees,
                  !.num_marked = other_heap.num_marked]

\* The handles the caller holds for the nodes of heap h.
Handles(h) == IF h = "self" THEN live ELSE other_heap.live

\* Assign the program state r to the nodes and to heap h, whose caller then
\* holds the handles lv; a ValueError of decrease_key is caught by the
\* caller, every other exception ends the run.
Becomes(h, r, lv) ==
  /\ key' = r.key /\ degree' = r.degree /\ parent' = r.parent
  /\ child' = r.child /\ left' = r.left /\ right' = r.right
  /\ marked' = r.marked
  /\ err' = IF r.err = "ValueError" THEN "none" ELSE r.err
  /\ IF h = "self"
     THEN /\ min_node' = r.min_node /\ num_nodes' = r.num_nodes
          /\ num_trees' = r.num_trees /\ num_marked' = r.num_marked
          /\ live' = lv
          /\ UNCHANGED other_heap
     ELSE /\ other_heap' = [min_node |-> r.min_node, num_nodes |-> r.num_nodes,
                       num_trees |-> r.num_trees,
                       num_marked |-> r.num_marked, live |-> lv]
          /\ UNCHANGED <<heapVars, live>>

Op(name, h, node, k, res) ==
  [op |-> name, heap |-> h, node |-> node, k |-> k, res |-> res]

\* FibonacciHeap.__init__
EmptyHeap ==
  [min_node |-> None, num_nodes |-> 0, num_trees |-> 0, num_marked |-> 0,
   live |-> {}]

Init ==
  /\ key = [n \in Nodes |-> 0] /\ degree = [n \in Nodes |-> 0]
  /\ parent = [n \in Nodes |-> None] /\ child = [n \in Nodes |-> None]
  /\ left = [n \in Nodes |-> None] /\ right = [n \in Nodes |-> None]
  /\ marked = [n \in Nodes |-> FALSE]
  /\ min_node = None /\ num_nodes = 0 /\ num_trees = 0 /\ num_marked = 0
  /\ other_heap = EmptyHeap
  /\ err = "none" /\ allocated = 0 /\ live = {} /\ out = <<>>
  /\ last = Op("init", "self", None, 0, "ok")
  /\ merges = 0

\* h.insert(k): the caller keeps the handle returned.
InsertOn(h, limit, keys) ==
  /\ err = "none" /\ UNCHANGED merges /\ allocated < limit
  /\ \E k \in keys :
       /\ Becomes(h, Insert(HeapSt(h), allocated + 1, k),
                  Handles(h) \cup {allocated + 1})
       /\ last' = Op("insert", h, allocated + 1, k, "ok")
  /\ allocated' = allocated + 1
  /\ out' = <<>>

\* h.delete_min(): out collects the keys returned by consecutive calls.
DeleteMinOn(h) ==
  /\ err = "none" /\ UNCHANGED merges
  /\ LET s == HeapSt(h)
         r == DeleteMin(s)
     IN IF r.err # "none"
        THEN /\ Becomes(h, r, Handles(h))
             /\ last' = Op("delete_min", h, None, 0, r.err)
             /\ UNCHANGED out
        ELSE /\ Becomes(h, r, Handles(h) \ {s.min_node})
             /\ last' = Op("delete_min", h, s.min_node, 0, "ok")
             /\ out' = IF s.min_node = None THEN out
                       ELSE Append(out, key[s.min_node])
  /\ UNCHANGED allocated

\* h.decrease_key(n, k) on a handle the caller holds.
DecreaseKeyOn(h, handles, keys) ==
  /\ err = "none" /\ UNCHANGED merges
  /\ \E n \in handles, k \in keys :
       LET r == DecreaseKey(HeapSt(h), n, k) IN
         /\ Becomes(h, r, Handles(h))
         /\ last' = Op("decrease_key", h, n, k,
                       IF r.err = "none" THEN "ok" ELSE r.err)
  /\ out' = <<>>
  /\ UNCHANGED allocated

\* h.delete(n) on one of the given handles; the caller drops the handle.
DeleteWith(h, handles) ==
  /\ err = "none" /\ UNCHANGED merges
  /\ \E n \in handles :
       LET r == Delete(HeapSt(h), n) IN
         /\ Becomes(h, r, IF r.err = "none" THEN Handles(h) \ {n}
                          ELSE Handles(h))
         /\ last' = Op("delete", h, n, 0,
                       IF r.err = "none" THEN "ok" ELSE r.err)
  /\ out' = <<>>
  /\ UNCHANGED allocated

\* h.delete(n) on a handle the caller holds.
DeleteOn(h) == DeleteWith(h, Handles(h))

InsertOp(limit, keys) == InsertOn("self", limit, keys)
DeleteMinOp == DeleteMinOn("self")
DecreaseKeyOp(handles, keys) == DecreaseKeyOn("self", handles, keys)
DeleteOp == DeleteOn("self")

\* Any sequence of the public operations on one heap, keys 1..MaxKey,
\* decrease to 0..MaxKey.
Next ==
  \/ InsertOp(MaxNodes, 1..MaxKey)
  \/ DeleteMinOp
  \/ DecreaseKeyOp(live, 0..MaxKey)
  \/ DeleteOp

Spec == Init /\ [][Next]_vars

\* Inserts only, then delete_min while not is_empty().
DrainInsert ==
  /\ last.op \in {"init", "insert"}
  /\ InsertOp(DrainNodes, 1..DrainKey)

DrainDeleteMin == num_nodes # 0 /\ DeleteMinOp

DrainNext == DrainInsert \/ DrainDeleteMin

SpecDrain == Init /\ [][DrainNext]_vars

\* Fill, then operate, with pairwise distinct keys: the i-th insert has key
\* FillDec + i, no insert follows another operation, and a key is decreased
\* once, to one less than the smallest key held, down to 1.
LiveKeys == {key[n] : n \in live}

BelowAll == IF live = {} THEN {}
            ELSE {k \in {MaxOf({-x : x \in LiveKeys}) * (-1) - 1} : k >= 1}

FillInsert ==
  /\ last.op \in {"init", "insert"}
  /\ InsertOp(FillNodes, {FillDec + allocated + 1})

Original(n) == key[n] = FillDec + n

FillDecreaseKey == DecreaseKeyOp({n \in live : Original(n)}, BelowAll)

FillNext == FillInsert \/ DeleteMinOp \/ FillDecreaseKey \/ DeleteOp

SpecFill == Init /\ [][FillNext]_vars

\* Two heaps and merge.  merged = a.merge(b) absorbs both root lists; the
\* caller goes on with merged as the heap under study and a new empty heap
\* as the other one.  The heaps are built one after the other by insert and
\* delete_min and merged once (merges counts the calls); the merged heap is
\* then operated on.  last.heap names the receiver and last.node the minimum
\* node of the argument.
MergeOp(first) ==
  /\ err = "none"
  /\ LET r == IF first = "self" THEN Merge(St, HeapSt("other"))
              ELSE Merge(HeapSt("other"), St)
         arg == IF first = "self" THEN other_heap.min_node ELSE min_node
     IN IF r.err # "none"
        THEN /\ Becomes("self", [St EXCEPT !.err = r.err], live)
             /\ last' = Op("merge", first, arg, 0, r.err)
        ELSE /\ key' = r.key /\ degree' = r.degree /\ parent' = r.parent
             /\ child' = r.child /\ left' = r.left /\ right' = r.right
             /\ marked' = r.marked /\ err' = r.err
             /\ min_node' = r.min_node /\ num_nodes' = r.num_nodes
             /\ num_trees' = r.num_trees /\ num_marked' = r.num_marked
             /\ live' = live \cup other_heap.live
             /\ other_heap' = EmptyHeap
             /\ last' = Op("merge", first, arg, 0, "ok")
  /\ out' = <<>>
  /\ merges' = merges + 1
  /\ UNCHANGED allocated

MergeNext ==
  \/ /\ merges = 0 /\ other_heap = EmptyHeap
     /\ (InsertOn("self", MergeNodes, 1..MergeKey) \/ DeleteMinOn("self"))
  \/ /\ merges = 0
     /\ (InsertOn("other", MergeNodes, 1..MergeKey) \/ DeleteMinOn("other"))
  \/ /\ merges = 0
     /\ \E first \in {"self", "other"} : MergeOp(first)
  \/ /\ merges = 1
     /\ (DeleteMinOp \/ DecreaseKeyOp(live, 0..(MergeKey - 1)) \/ DeleteOp)

SpecMerge == Init /\ [][MergeNext]_vars

\* A call of a read-only accessor of heap h.
AccessorOn(h) ==
  /\ err = "none" /\ UNCHANGED <<merges, allocated, out>>
  /\ \E name \in AccessorNames :
       LET r == Access(name, HeapSt(h)) IN
         /\ Becomes(h, r.s, Handles(h))
         /\ last' = Op(name, h, r.node, r.k,
                       IF r.s.err = "none" THEN "ok" ELSE r.s.err)

\* The public operations on one heap with accessor calls in between.
ReadNext ==
  \/ InsertOp(ReadNodes, 1..ReadKey)
  \/ DeleteMinOp
  \/ DecreaseKeyOp(live, 0..ReadKey)
  \/ DeleteOp
  \/ AccessorOn("self")

SpecRead == Init /\ [][ReadNext]_vars

\* Every node is inserted with the same key, as the Dijkstra client
\* inserts every vertex with key infinity; keys are then decreased by one
\* and minima extracted, in any order.
EqualNext ==
  \/ InsertOp(EqualNodes, {EqualKey})
  \/ DeleteMinOp
  \/ DecreaseKeyOp(live, {EqualKey - 1})

SpecEqual == Init /\ [][EqualNext]_vars

\* Fill, then operate, with pairwise distinct keys, where the caller also
\* passes handles of nodes that delete_min or delete has already taken out
\* of the heap.
Stale == (1..allocated) \ live

StaleDecreaseKey == DecreaseKeyOp(Stale, BelowAll)

StaleDelete == DeleteWith("self", Stale)

StaleNext ==
  FillInsert \/ DeleteMinOp \/ DeleteOp \/ StaleDecreaseKey \/ StaleDelete

SpecStale == Init /\ [][StaleNext]_vars

\* A heap with pairwise distinct keys is filled and operated on by
\* delete_min and delete, then merged with another heap that is new or holds
\* one node, of a larger key, inserted at the start.
EmptiedOtherInsert ==
  /\ merges = 0 /\ allocated = 0
  /\ InsertOn("other", 1, {FillDec + FillNodes + 2})

EmptiedInsert ==
  /\ merges = 0 /\ last.op \in {"init", "insert"}
  /\ InsertOn("self", FillNodes + other_heap.num_nodes,
              {FillDec + allocated + 1})

EmptiedOperate == merges = 0 /\ (DeleteMinOp \/ DeleteOp)

EmptiedMerge == merges = 0 /\ \E first \in {"self", "other"} : MergeOp(first)

EmptiedNext ==
  EmptiedOtherInsert \/ EmptiedInsert \/ EmptiedOperate \/ EmptiedMerge

SpecEmptied == Init /\ [][EmptiedNext]_vars

\* Equal keys on a larger heap: the inserts, all of key EqualKey, come
\* before the first extraction; delete_min and decrease_key to EqualKey - 1
\* at any time.
EqualFillInsert == live = 1..allocated /\ InsertOp(EqualFillNodes, {EqualKey})

EqualFillNext ==
  EqualFillInsert \/ DeleteMinOp \/ DecreaseKeyOp(live, {EqualKey - 1})

SpecEqualFill == Init /\ [][EqualFillNext]_vars

\* Cuts in a deep tree, with pairwise distinct keys: inserts as in SpecFill,
\* one delete_min after them, then decrease_key as in SpecFill.
CascadeInsert ==
  /\ last.op \in {"init", "insert"}
  /\ InsertOp(CascadeNodes, {FillDec + allocated + 1})

CascadeDeleteMin == live = 1..allocated /\ DeleteMinOp

CascadeNext == CascadeInsert \/ CascadeDeleteMin \/ FillDecreaseKey

SpecCascade == Init /\ [][CascadeNext]_vars

\* Cuts in a deep tree, with equal keys: inserts of key EqualKey, no insert
\* after another operation, decrease_key to EqualKey - 1 once per node, and
\* at most EqualCascadeDrain extractions.
EqualCascadeInsert ==
  /\ last.op \in {"init", "insert"}
  /\ InsertOp(EqualCascadeNodes, {EqualKey})

EqualCascadeDeleteMin ==
  Cardinality(live) > allocated - EqualCascadeDrain /\ DeleteMinOp

EqualCascadeDecreaseKey ==
  DecreaseKeyOp({n \in live : key[n] = EqualKey}, {EqualKey - 1})

EqualCascadeNext ==
  EqualCascadeInsert \/ EqualCascadeDeleteMin \/ EqualCascadeDecreaseKey

SpecEqualCascade == Init /\ [][EqualCascadeNext]_vars

\* The node class used on its own, as its unit tests use it: nodes are
\* created with keys 1..NodeKey, a node without parent is made a child of a
\* node of another tree, a child is removed from its parent, a node
\* without parent is marked, and get_children and subtree_size are called.
\* last.node is the receiver, last.k the argument node or the number
\* returned, and out the list get_children returned.
RECURSIVE TreeRoot(_)
TreeRoot(n) == IF parent[n] = None THEN n ELSE TreeRoot(parent[n])

NodeStep(r, name, node, k, children) ==
  /\ err = "none"
  /\ Becomes("self", r, live)
  /\ last' = Op(name, "self", node, k, "ok")
  /\ out' = children
  /\ UNCHANGED <<merges, allocated>>

NodeCreate ==
  /\ err = "none" /\ allocated < NodeCount
  /\ \E k \in 1..NodeKey :
       /\ Becomes("self", NewNode(St, allocated + 1, k),
                  live \cup {allocated + 1})
       /\ last' = Op("FibonacciNode", "self", allocated + 1, k, "ok")
  /\ allocated' = allocated + 1
  /\ out' = <<>>
  /\ UNCHANGED merges

NodeAddChild ==
  \E p \in live, c \in live :
    /\ parent[c] = None /\ TreeRoot(p) # c
    /\ NodeStep(add_child(St, p, c), "add_child", p, c, <<>>)

NodeRemoveChild ==
  \E c \in live :
    /\ parent[c] # None
    /\ NodeStep(remove_child(St, parent[c], c), "remove_child", parent[c], c,
                <<>>)

NodeMark ==
  \E n \in live :
    /\ ~marked[n] /\ parent[n] = None
    /\ NodeStep([St EXCEPT !.marked[n] = TRUE], "mark", n, 0, <<>>)

NodeGetChildren ==
  \E p \in live :
    LET children == IF child[p] = None THEN <<>> ELSE get_children(St, p)
    IN NodeStep(St, "get_children", p, Len(children), children)

NodeSubtreeSize ==
  \E p \in live : NodeStep(St, "subtree_size", p, subtree_size(St, p), <<>>)

NodeNext ==
  \/ NodeCreate \/ NodeAddChild \/ NodeRemoveChild \/ NodeMark
  \/ NodeGetChildren \/ NodeSubtreeSize

SpecNode == Init /\ [][NodeNext]_vars

\* A wide heap with pairwise distinct keys: the i-th insert has key i,
\* delete_min is called when at least three roots have degree 0, and
\* delete is called on a child node among the first WideDel handles.
DegreeZeroRoots ==
  IF min_node = None THEN {}
  ELSE LET roots == WalkRight(St, min_node, min_node, <<>>)
       IN {n \in {roots[i] : i \in 1..Len(roots)} : degree[n] = 0}

WideInsert == InsertOp(WideNodes, {allocated + 1})

WideDeleteMin == Cardinality(DegreeZeroRoots) >= 3 /\ DeleteMinOp

WideDelete ==
  DeleteWith("self", {n \in live \cap (1..WideDel) : parent[n] # None})

WideNext == WideInsert \/ WideDeleteMin \/ WideDelete

SpecWide == Init /\ [][WideNext]_vars

(***************************************************************************)
(* What the claims speak of                                                *)
(***************************************************************************)

\* The nodes reachable from S through right and child.
RECURSIVE Closure(_, _)
Closure(s, S) ==
  LET T == S \cup {s.right[n] : n \in S} \cup ({s.child[n] : n \in S} \ {None})
  IN IF T = S THEN S ELSE Closure(s, T)

\* The nodes reachable from S through right alone.
RECURSIVE RightClosure(_, _)
RightClosure(s, S) ==
  LET T == S \cup {s.right[n] : n \in S}
  IN IF T = S THEN S ELSE RightClosure(s, T)

\* The nodes the heap holds: those reachable from the minimum pointer.
InHeapOf(s) == IF s.min_node = None THEN {} ELSE Closure(s, {s.min_node})
InHeap == InHeapOf(St)

\* The root cycle reached from the minimum pointer by following right.
RootCycle == IF min_node = None THEN {} ELSE RightClosure(St, {min_node})

\* n and its ancestors, following parent.
RECURSIVE Ancestors(_, _)
Ancestors(n, seen) ==
  IF n = None \/ n \in seen THEN seen ELSE Ancestors(parent[n], seen \cup {n})

\* The number of nodes of the heap in the subtree of n, n included.
SubtreeSize(n) ==
  Cardinality({m \in InHeap \cup {n} : n \in Ancestors(m, {})})

RECURSIVE Fib(_)
Fib(n) == IF n <= 1 THEN n ELSE Fib(n - 1) + Fib(n - 2)

NonDecreasing(q) == \A i \in 1..(Len(q) - 1) : q[i] <= q[i + 1]

Min2(a, b) == IF a <= b THEN a ELSE b

\* The operation just completed without an uncaught exception.
Completed == err = "none"

C2_FindMin ==
  Completed =>
    /\ (min_node = None) <=> (live = {})
    /\ min_node # None =>
         /\ min_node \in live
         /\ \A n \in live : key[min_node] <= key[n]

\* C3: after every completed operation, every node of the heap that has a
\* parent has a key greater than or equal to its parent's key.
C3_HeapOrder ==
  Completed =>
    \A n \in InHeap \cup live \cup InHeapOf(HeapSt("other"))
                 \cup other_heap.live :
      parent[n] # None => key[n] >= key[parent[n]]

\* C3 witness: two non-empty heaps have been merged, the receiver holding
\* the minimum, and the merged heap holds a child with a key above its
\* parent's.
C3_Witness ==
  /\ Completed /\ last.op = "merge" /\ last.res = "ok"
  /\ last.node # None /\ min_node # last.node
  /\ \E n \in InHeap : parent[n] # None /\ key[n] > key[parent[n]]

\* C4: after every completed operation num_nodes equals the number of nodes
\* reachable from the root cycle through child relations.
C4_NumNodes == Completed => num_nodes = Cardinality(InHeap)

\* C5: after every completed operation the root cycle reached from the
\* minimum pointer contains exactly num_trees nodes, each with parent none.
C5_RootCycle ==
  Completed =>
    /\ Cardinality(RootCycle) = num_trees
    /\ \A n \in RootCycle : parent[n] = None

\* C6: after every completed operation num_marked equals the number of
\* marked nodes of the heap (so potential() is roots + 2 * marked nodes).
C6_NumMarked ==
  Completed =>
    /\ num_marked = Cardinality({n \in InHeap : marked[n]})
    /\ num_trees + 2 * num_marked
         = Cardinality(RootCycle) + 2 * Cardinality({n \in InHeap : marked[n]})

\* C7: after every completed operation every node of the heap with degree d
\* roots a subtree of at least F(d+2) nodes.
C7_DegreeBound ==
  Completed => \A n \in InHeap : SubtreeSize(n) >= Fib(degree[n] + 2)

\* C8: decrease_key(node, new_key) on a node of the heap with
\* new_key <= node.key sets the key, keeps every node in the heap and the
\* size, and leaves find_min().key = min(previous minimum key, new_key).
C8_DecreaseKey ==
  [][(last'.op = "decrease_key" /\ last'.k <= key[last'.node]) =>
       /\ last'.res = "ok"
       /\ key'[last'.node] = last'.k
       /\ num_nodes' = num_nodes
       /\ InHeap \cup {last'.node} \subseteq InHeapOf(St')
       /\ min_node' # None
       /\ key'[min_node'] = Min2(key[min_node], last'.k)]_vars

\* C9: decrease_key(node, new_key) with new_key > node.key raises ValueError
\* and leaves every node field and every heap field as before the call.
C9_RejectedUnchanged ==
  [][(last'.op = "decrease_key" /\ last'.k > key[last'.node]) =>
       /\ last'.res = "ValueError"
       /\ UNCHANGED <<nodeVars, heapVars>>]_vars

\* C9 witness: decrease_key has rejected a larger key for a child node.
C9_Witness ==
  /\ last.op = "decrease_key" /\ last.res = "ValueError"
  /\ parent[last.node] # None /\ last.k > key[last.node]

\* The keys returned by `while not is_empty(): delete_min()` from s, and
\* whether the loop ended without an exception.
RECURSIVE DrainFrom(_, _)
DrainFrom(s, fuel) ==
  IF s.num_nodes = 0 THEN [keys |-> <<>>, ok |-> TRUE]
  ELSE IF fuel = 0 \/ s.min_node = None THEN [keys |-> <<>>, ok |-> FALSE]
  ELSE LET r == DeleteMin(s) IN
       IF r.err # "none" THEN [keys |-> <<>>, ok |-> FALSE]
       ELSE LET rest == DrainFrom(r, fuel - 1)
            IN [keys |-> <<s.key[s.min_node]>> \o rest.keys, ok |-> rest.ok]

\* q lists the keys that the nodes of S have in s, each as often as held.
KeysOfNodes(s, S, q) ==
  \A k \in {s.key[n] : n \in S} \cup {q[i] : i \in 1..Len(q)} :
    Cardinality({i \in 1..Len(q) : q[i] = k})
      = Cardinality({n \in S : s.key[n] = k})

\* C10: delete(node) on a node of the heap removes exactly that node: the
\* size drops by one, every other node stays, and draining the heap then
\* yields the keys of the other nodes in non-decreasing order.
C10_Delete ==
  [][last'.op = "delete" =>
       /\ last'.res = "ok"
       /\ num_nodes' = num_nodes - 1
       /\ InHeapOf(St') = live \ {last'.node}
       /\ LET d == DrainFrom(St', Capacity) IN
            /\ d.ok /\ NonDecreasing(d.keys)
            /\ KeysOfNodes(St', live \ {last'.node}, d.keys)]_vars

\* The root cycle of s reached from its minimum pointer.
RootsOf(s) == IF s.min_node = None THEN {} ELSE RightClosure(s, {s.min_node})

\* s is a valid heap holding exactly the nodes of lv: the minimum pointer is
\* a root of least key, the heap is ordered, and the counters agree with
\* the structure.
ValidHeap(s, lv) ==
  /\ (s.min_node = None) <=> (lv = {})
  /\ InHeapOf(s) = lv
  /\ s.num_nodes = Cardinality(lv)
  /\ Cardinality(RootsOf(s)) = s.num_trees
  /\ \A n \in RootsOf(s) : s.parent[n] = None
  /\ \A n \in lv : s.parent[n] = None => n \in RootsOf(s)
  /\ \A n \in lv : s.parent[n] # None =>
       /\ s.parent[n] \in lv
       /\ s.key[n] >= s.key[s.parent[n]]
  /\ \A n \in lv : s.key[s.min_node] <= s.key[n]
  /\ s.num_marked = Cardinality({n \in lv : s.marked[n]})

\* C11: A.merge(B) on two valid non-empty heaps returns a heap of size
\* size(A) + size(B) whose minimum key is the smaller of the two minimum
\* keys and whose drain yields the keys of A and B, each as often as held,
\* in non-decreasing order.
C11_Merge ==
  [][(/\ last'.op = "merge"
      /\ live # {} /\ other_heap.live # {}
      /\ ValidHeap(St, live)
      /\ ValidHeap(HeapSt("other"), other_heap.live)) =>
       /\ last'.res = "ok"
       /\ num_nodes' = Cardinality(live) + Cardinality(other_heap.live)
       /\ min_node' # None
       /\ key'[min_node'] = Min2(key[min_node], key[other_heap.min_node])
       /\ LET d == DrainFrom(St', Capacity) IN
            /\ d.ok /\ NonDecreasing(d.keys)
            /\ KeysOfNodes(St', live \cup other_heap.live, d.keys)]_vars

\* The heap fields of s.
Counters(s) == <<s.min_node, s.num_nodes, s.num_trees, s.num_marked>>

\* C12: when exactly one heap of a merge is empty the merged heap has the
\* minimum, size, num_trees and num_marked of the other one and its root
\* cycle; when both are empty the merged heap has no minimum and size 0.
C12_MergeEmpty ==
  [][last'.op = "merge" =>
       LET a == St
           b == HeapSt("other")
       IN /\ (a.num_nodes = 0 /\ b.num_nodes # 0) =>
               /\ last'.res = "ok"
               /\ Counters(St') = Counters(b)
               /\ RootsOf(St') = RootsOf(b)
               /\ UNCHANGED nodeVars
          /\ (a.num_nodes # 0 /\ b.num_nodes = 0) =>
               /\ last'.res = "ok"
               /\ Counters(St') = Counters(a)
               /\ RootsOf(St') = RootsOf(a)
               /\ UNCHANGED nodeVars
          /\ (a.num_nodes = 0 /\ b.num_nodes = 0) =>
               /\ last'.res = "ok"
               /\ min_node' = None /\ num_nodes' = 0]_vars

\* C13: delete_min() on a valid non-empty heap returns the node find_min()
\* returned just before, decreases the size by one and leaves every other
\* node in the heap.
C13_DeleteMin ==
  [][(/\ last'.op = "delete_min" /\ last'.heap = "self"
      /\ num_nodes # 0 /\ ValidHeap(St, live)) =>
       /\ last'.res = "ok"
       /\ last'.node = min_node
       /\ num_nodes' = num_nodes - 1
       /\ InHeapOf(St') = InHeap \ {min_node}]_vars

C15_EmptyHeap ==
  (Completed /\ live = {}) =>
    /\ min_node = None /\ num_trees = 0 /\ num_marked = 0
    /\ potential(St) = 0

\* C16: insert(key) does not fail and returns a new node with that key, an
\* unmarked root of degree 0 in the root cycle; num_nodes, num_trees and
\* potential() grow by one, num_marked stays, and no other node's key,
\* parent, child, degree or mark changes.
C16_Insert ==
  [][(last'.op = "insert" /\ last'.heap = "self") =>
       LET n == last'.node IN
         /\ last'.res = "ok"
         /\ key'[n] = last'.k /\ ~marked'[n] /\ degree'[n] = 0
         /\ parent'[n] = None /\ child'[n] = None
         /\ n \in RootsOf(St')
         /\ num_nodes' = num_nodes + 1 /\ num_trees' = num_trees + 1
         /\ potential(St') = potential(St) + 1
         /\ num_marked' = num_marked
         /\ \A m \in Nodes \ {n} :
              /\ key'[m] = key[m] /\ parent'[m] = parent[m]
              /\ child'[m] = child[m] /\ degree'[m] = degree[m]
              /\ marked'[m] = marked[m]]_vars

\* C17: in a run of inserts followed by delete_min calls, with keys that
\* may be equal, every call returns a node that was inserted and not
\* returned before, and when the heap reports empty every inserted node has
\* been returned.
C17_EqualKeys ==
  [][last'.op = "delete_min" =>
       /\ last'.res = "ok"
       /\ last'.node \in live
       /\ num_nodes' = 0 => live' = {}]_vars

\* C18: decrease_key or delete on a handle already taken out of a valid
\* heap either fails or leaves a valid heap holding the same nodes.
C18_StaleHandle ==
  [][(/\ last'.op \in {"decrease_key", "delete"}
      /\ last'.node \notin live
      /\ ValidHeap(St, live)) =>
       \/ last'.res # "ok"
       \/ ValidHeap(St', live)]_vars

\* C19: a root is never marked: after every completed operation every
\* marked node has a parent and is not in the root cycle.
C19_RootsUnmarked ==
  Completed =>
    \A n \in InHeap \cup live :
      marked[n] => (parent[n] # None /\ n \notin RootCycle)

\* C20: find_min(), len(), is_empty(), potential() and get_roots() change
\* no node field, not the minimum pointer and none of the three counters.
C20_Accessors ==
  [][last'.op \in AccessorNames => UNCHANGED <<nodeVars, heapVars>>]_vars

\* C20 witness: get_roots() has returned the root cycle of a heap that
\* holds a tree with a child.
C20_Witness ==
  /\ last.op = "get_roots" /\ last.res = "ok"
  /\ last.k = Cardinality(RootCycle) /\ last.k >= 1
  /\ \E n \in InHeap : parent[n] # None /\ key[n] > key[parent[n]]

\* A delete_min call that returned a node and left the heap non-empty.
DeleteMinLeaves ==
  /\ last'.op = "delete_min" /\ last'.heap = "self" /\ last'.res = "ok"
  /\ min_node # None /\ min_node' # None

DistinctDegrees(s) ==
  \A a, b \in RootsOf(s) : a # b => s.degree[a] # s.degree[b]

C22_DegreeBound ==
  [][(/\ last'.op = "delete_min" /\ last'.heap = "self" /\ last'.res = "ok"
      /\ min_node # None /\ num_nodes' >= 1)
     => \A n \in InHeapOf(St') \cup live' :
          degree'[n] <= max_degree_bound(num_nodes')]_vars

\* C23: the degree table of consolidation is large enough: no call ends
\* with an index outside the table.
C23_TableLargeEnough == err # "IndexError"

\* The ancestors a cascading cut starting at p cuts: the maximal run of
\* marked non-roots; and the ancestor at which it stops.
RECURSIVE CascadeRun(_)
CascadeRun(p) ==
  IF parent[p] # None /\ marked[p] THEN {p} \cup CascadeRun(parent[p]) ELSE {}

RECURSIVE CascadeStop(_)
CascadeStop(p) ==
  IF parent[p] # None /\ marked[p] THEN CascadeStop(parent[p]) ELSE p

\* A decrease_key call that cuts its node from its parent.
CutStep ==
  /\ last'.op = "decrease_key" /\ last'.heap = "self" /\ last'.res = "ok"
  /\ parent[last'.node] # None
  /\ last'.k < key[parent[last'.node]]

\* The nodes the call cuts, and the mark the cascade leaves behind.
CutNodes == {last'.node} \cup CascadeRun(parent[last'.node])
StopMark ==
  IF parent[CascadeStop(parent[last'.node])] # None THEN 1 ELSE 0

\* C24: when decrease_key cuts a node that was marked, the node ends
\* unmarked and num_marked is decremented by one for it (and for each other
\* marked node the call cuts, and incremented for the ancestor the call
\* marks).
C24_CutUnmarks ==
  [][(CutStep /\ marked[last'.node]) =>
       /\ ~marked'[last'.node]
       /\ num_marked' = num_marked + StopMark
                        - Cardinality({c \in CutNodes : marked[c]})]_vars

\* The children of node m.
ChildrenOf(m) == {c \in InHeap : parent[c] = m}

\* C25: when delete_min removes a minimum with children, every former child
\* is an unmarked root with parent none once the children are promoted
\* (before consolidation) and is unmarked on return, and num_marked
\* decreases by the number of the children that were marked before the call.
C25_Promotion ==
  [][(/\ last'.op = "delete_min" /\ last'.heap = "self" /\ last'.res = "ok"
      /\ min_node # None /\ child[min_node] # None)
     => LET kids == ChildrenOf(min_node)
            p == Promote(St, get_children(St, min_node))
        IN /\ \A c \in kids :
                /\ p.parent[c] = None /\ ~p.marked[c] /\ c \in RootsOf(p)
                /\ ~marked'[c]
           /\ num_marked' = num_marked
                            - Cardinality({c \in kids : marked[c]})]_vars

\* C26: when decrease_key cuts a node from an unmarked parent p that is not
\* a root, p becomes marked and stays a child of its parent, num_marked
\* increases by one, and the node cut is the one node moved to the root
\* list, so num_trees increases by one; when p is a root, p stays unmarked
\* and num_marked is unchanged.
C26_FirstLoss ==
  [][CutStep =>
       LET n == last'.node
           p == parent[n]
       IN /\ (parent[p] # None /\ ~marked[p]) =>
               /\ marked'[p] /\ parent'[p] = parent[p]
               /\ num_marked' = num_marked + 1
               /\ RootsOf(St') = RootsOf(St) \cup {n}
               /\ num_trees' = num_trees + 1
          /\ parent[p] = None =>
               /\ ~marked'[p] /\ num_marked' = num_marked]_vars

\* A decrease_key call that cuts its node from a marked parent that is not
\* a root.
CascadeStep ==
  /\ last'.op = "decrease_key" /\ last'.heap = "self"
  /\ last'.k <= key[last'.node]
  /\ parent[last'.node] # None
  /\ last'.k < key[parent[last'.node]]
  /\ CascadeRun(parent[last'.node]) # {}

\* C27: when decrease_key cuts a node whose parent is marked and not a
\* root, the call returns, the maximal run of marked non-root ancestors is
\* cut too, each ending as an unmarked root with parent none; the first
\* ancestor that is unmarked or a root stays in place, marked if it is not
\* a root; num_trees increases by one plus the length of the run.
C27_Cascade ==
  [][CascadeStep =>
       LET run == CascadeRun(parent[last'.node])
           stop == CascadeStop(parent[last'.node])
       IN /\ last'.res = "ok"
          /\ \A c \in run \cup {last'.node} :
               parent'[c] = None /\ ~marked'[c] /\ c \in RootsOf(St')
          /\ parent'[stop] = parent[stop]
          /\ marked'[stop] <=> parent[stop] # None
          /\ num_trees' = num_trees + 1 + Cardinality(run)]_vars

\* C28: a decrease_key call that is accepted and does not violate the heap
\* order (its node is a root, or the new key is not below the parent's key;
\* the new key may equal the current one) changes no parent, child, left or
\* right pointer, no degree, no mark and no counter: only the key of its
\* node, and the minimum pointer, which stays or moves to the node.
C28_NoCutFrame ==
  [][(/\ last'.op = "decrease_key" /\ last'.heap = "self" /\ last'.res = "ok"
      /\ \/ parent[last'.node] = None
         \/ last'.k >= key[parent[last'.node]])
     => /\ UNCHANGED <<parent, child, left, right, degree, marked>>
        /\ UNCHANGED <<num_nodes, num_trees, num_marked>>
        /\ key' = [key EXCEPT ![last'.node] = last'.k]
        /\ min_node' \in {min_node, last'.node}]_vars

\* C28 witness: decrease_key has lowered the key of a child to the key of
\* its parent, and the child is still the child of that parent.
C28_Witness ==
  /\ last.op = "decrease_key" /\ last.res = "ok" /\ Completed
  /\ last.node \in InHeap /\ parent[last.node] \in InHeap
  /\ key[last.node] = last.k /\ key[parent[last.node]] = last.k
  /\ last.node \in ChildrenOf(parent[last.node])
  /\ num_trees = 1 /\ num_nodes >= 3

\* C29: after delete_min or delete has returned, no node that remains in
\* the heap refers to the extracted node through parent, child, left or
\* right, and the minimum pointer does not refer to it.
C29_Unlinked ==
  [][(/\ last'.op \in {"delete_min", "delete"} /\ last'.heap = "self"
      /\ last'.res = "ok" /\ last'.node # None)
     => LET x == last'.node IN
        /\ min_node' # x
        /\ \A m \in (InHeapOf(St') \cup live') \ {x} :
             /\ parent'[m] # x /\ child'[m] # x
             /\ left'[m] # x /\ right'[m] # x]_vars

\* C30: the node returned by delete_min has been stripped of its children:
\* on return its child is none and its degree is 0.
C30_Stripped ==
  [][(/\ last'.op = "delete_min" /\ last'.heap = "self" /\ last'.res = "ok"
      /\ last'.node # None)
     => child'[last'.node] = None /\ degree'[last'.node] = 0]_vars

\* C31: after every completed public operation the sibling cycles are well
\* formed: for every node n of the heap, n.right.left and n.left.right are
\* n, and the nodes reached from n by following right share n's parent
\* (following right from n then returns to n, each member visited once).
C31_SiblingCycles ==
  (Completed /\ last.heap = "self") =>
    \A n \in InHeap \cup live :
      /\ left[n] # None /\ right[n] # None
      /\ left[right[n]] = n /\ right[left[n]] = n
      /\ \A m \in RightClosure(St, {n}) : parent[m] = parent[n]

\* C32: after every completed public operation, for every node p of the
\* heap, p.child is none exactly when p.degree is 0, and otherwise the
\* sibling cycle of p.child has p.degree members, each with parent p.
C32_Degree ==
  (Completed /\ last.heap = "self") =>
    \A p \in InHeap \cup live :
      /\ (child[p] = None) <=> (degree[p] = 0)
      /\ child[p] # None =>
           LET cycle == RightClosure(St, {child[p]})
           IN /\ Cardinality(cycle) = degree[p]
              /\ \A c \in cycle : parent[c] = p

\* The children and the descendants of a node among the nodes created.
NodeChildren(p) == {c \in live : parent[c] = p}
Descendants(p) == {m \in live : m # p /\ p \in Ancestors(m, {})}

\* C33: get_children() returns each direct child of the node exactly once,
\* so its length is the node's degree, and subtree_size() counts the node
\* and every descendant exactly once, also when siblings have equal keys.
C33_GetChildren ==
  /\ last.op = "get_children" =>
       /\ {out[i] : i \in 1..Len(out)} = NodeChildren(last.node)
       /\ \A i, j \in 1..Len(out) : out[i] = out[j] => i = j
       /\ Len(out) = degree[last.node]
  /\ last.op = "subtree_size" =>
       last.k = 1 + Cardinality(Descendants(last.node))

\* C34: get_roots() returns every node of the root cycle exactly once: the
\* length of its result is num_trees and the number of nodes of the root
\* cycle, and the subtree sizes of the nodes it returns add up to
\* len(heap), also when roots have equal keys.
C34_GetRoots ==
  (last.op = "get_roots" /\ last.heap = "self") =>
    /\ last.res = "ok"
    /\ last.k = num_trees
    /\ last.k = Cardinality(RootCycle)
    /\ min_node # None =>
         SumSizes(St, WalkRight(St, min_node, min_node, <<>>), 1) = num_nodes

\* C35: parent.add_child(child) makes child a child of parent and touches
\* nothing else: child.parent is parent, parent.degree grows by one, child
\* is unmarked and a member of parent's child cycle, the cycle holds the
\* previous children and child and nothing else, every previous child
\* keeps parent, and no key, no other parent, degree, child pointer or
\* mark and no field of a heap changes.
C35_AddChild ==
  [][last'.op = "add_child" =>
       LET p == last'.node
           c == last'.k
           cycle == RightClosure(St', {child'[p]})
       IN /\ parent'[c] = p
          /\ degree'[p] = degree[p] + 1
          /\ ~marked'[c]
          /\ child'[p] # None /\ c \in cycle
          /\ cycle = NodeChildren(p) \cup {c}
          /\ \A d \in NodeChildren(p) : parent'[d] = p
          /\ \A n \in cycle : left'[right'[n]] = n /\ right'[left'[n]] = n
          /\ key' = key
          /\ \A n \in Nodes \ {c} : parent'[n] = parent[n]
          /\ \A n \in Nodes \ {p} : degree'[n] = degree[n]
          /\ \A n \in Nodes \ {p} : child'[n] = child[n]
          /\ child[p] # None => child'[p] = child[p]
          /\ \A n \in Nodes \ {c} : marked'[n] = marked[n]
          /\ \A n \in Nodes \ (cycle \cup {c}) :
               left'[n] = left[n] /\ right'[n] = right[n]
          /\ UNCHANGED <<heapVars, other_heap>>]_vars

\* add_child has been called on a parent that had a child already, with
\* two children of equal keys afterwards, for a node that has a child of
\* its own.
C35_Witness ==
  /\ last.op = "add_child"
  /\ degree[last.node] >= 2 /\ degree[last.k] >= 1
  /\ \E d \in NodeChildren(last.node) \ {last.k} : key[d] = key[last.k]

\* C36: parent.remove_child(child), for a current child, undoes add_child:
\* child has no parent and is a cycle of one node, parent.degree shrinks by
\* one, parent's child cycle holds exactly the other former children, and
\* parent.child is none when no child remains and a remaining child
\* otherwise, whichever child is removed.
C36_RemoveChild ==
  [][last'.op = "remove_child" =>
       LET p == last'.node
           c == last'.k
           others == NodeChildren(p) \ {c}
       IN /\ parent'[c] = None
          /\ left'[c] = c /\ right'[c] = c
          /\ degree'[p] = degree[p] - 1
          /\ others = {} => child'[p] = None
          /\ others # {} =>
               /\ child'[p] \in others
               /\ RightClosure(St', {child'[p]}) = others
               /\ \A d \in others :
                    /\ parent'[d] = p
                    /\ left'[right'[d]] = d /\ right'[left'[d]] = d]_vars

\* remove_child has been called for a child with a sibling of the same
\* key, and has left the parent with two children or more.
C36_Witness ==
  /\ last.op = "remove_child"
  /\ degree[last.node] >= 2
  /\ \E d \in NodeChildren(last.node) : key[d] = key[last.k]

\* C37: after every completed public operation that leaves the heap
\* non-empty, the node find_min() returns is a root: it has parent none and
\* is a member of the root cycle, also after a decrease_key that cuts
\* nothing.
C37_MinIsRoot ==
  (Completed /\ last.heap = "self" /\ min_node # None) =>
    /\ find_min(St).node = min_node
    /\ parent[min_node] = None
    /\ min_node \in RootCycle

\* C38: draining terminates: every delete_min() of the loop
\* `while not is_empty(): delete_min()` on a heap of n nodes returns (it
\* neither raises nor runs for ever) and returns a node, never none, so
\* the loop makes exactly n iterations and ends with an empty heap.
C38_DrainTerminates ==
  (last.op = "delete_min" /\ last.heap = "self") =>
    /\ last.res = "ok"
    /\ last.node # None
    /\ Len(out) + num_nodes = allocated
    /\ num_nodes = 0 => (min_node = None /\ Len(out) = allocated)
====
